---- MODULE Spec2Model ----
(***************************************************************************)
(* Alodek DNS server (server/alodek-dns.js): record store, wire codec,     *)
(* upstream forwarder, query dispatcher and admin console.                 *)
(*                                                                         *)
(* A Buffer is a sequence of bytes; offset o of the source is index o+1.   *)
(* A JavaScript string is a sequence of character codes (ASCII only: the   *)
(* datagrams and commands drawn below carry no byte above 127, so the      *)
(* utf8 decoding of a label is the identity on its bytes).                 *)
(***************************************************************************)
EXTENDS Integers, Sequences, FiniteSets, TLC

VARIABLES
    configFile,   \* the file at this.configFile, as the constructor finds it
    dnsRecords,   \* this.dnsRecords: Map from lower-cased domain to {type, value, ttl}
    upstreamDNS,  \* this.upstreamDNS: the configured upstream resolvers
    proc,         \* the node process: "starting" (constructed, bind pending), "running"
                  \* (listening), "unbound" (alive, bind failed), "failed" (the
                  \* constructor threw), "crashed" (uncaught exception), "exited"
    queries,      \* one entry per datagram received on the listening socket, in arrival order
    wire          \* every datagram handed to this.server.send, in order

vars == <<configFile, dnsRecords, upstreamDNS, proc, queries, wire>>

----------------------------------------------------------------------------
(* Buffer and string primitives *)

Min(a, b) == IF a < b THEN a ELSE b

\* Buffer.writeUInt16BE / writeUInt32BE of an in-range value: its big-endian bytes
U16(n) == <<(n \div 256) % 256, n % 256>>
U32(n) == <<(n \div 16777216) % 256, (n \div 65536) % 256, (n \div 256) % 256, n % 256>>

\* Buffer.readUInt16BE(off), for off + 2 <= length
RdU16(b, off) == b[off + 1] * 256 + b[off + 2]
\* Buffer.readUInt32BE(off), for off + 4 <= length
RdU32(b, off) == ((b[off + 1] * 256 + b[off + 2]) * 256 + b[off + 3]) * 256 + b[off + 4]

\* buf.toString('utf8', from, to), buf.slice(from, to), and the source range of
\* buf.copy(target, t, from, to): the bytes at offsets from..to-1, the end clamped
\* to the buffer's length
Slice(b, from, to) == SubSeq(b, from + 1, Min(to, Len(b)))

\* String.prototype.toLowerCase on ASCII
toLowerCase(s) == [i \in 1..Len(s) |-> IF s[i] \in 65..90 THEN s[i] + 32 ELSE s[i]]

RECURSIVE Join(_)
\* labels.join('.')
Join(labels) ==
    IF Len(labels) = 0 THEN <<>>
    ELSE IF Len(labels) = 1 THEN labels[1]
    ELSE labels[1] \o <<46>> \o Join(Tail(labels))

RECURSIVE Split(_, _)
\* String.prototype.split(sep) for a one-character separator
Split(s, sep) ==
    IF \A i \in 1..Len(s) : s[i] # sep THEN <<s>>
    ELSE LET k == CHOOSE i \in 1..Len(s) : s[i] = sep /\ \A j \in 1..(i - 1) : s[j] # sep
         IN  <<SubSeq(s, 1, k - 1)>> \o Split(SubSeq(s, k + 1, Len(s)), sep)

\* A JavaScript number that is an integer, or NaN
NaN == [nan |-> TRUE, n |-> 0]
Num(n) == [nan |-> FALSE, n |-> n]

RECURSIVE DigitRun(_, _, _)
\* the value of the longest run of decimal digits of s starting at index i, acc so far
DigitRun(s, i, acc) ==
    IF i > Len(s) \/ s[i] \notin 48..57 THEN acc
    ELSE DigitRun(s, i + 1, acc * 10 + (s[i] - 48))

\* parseInt(s) of a string without leading blanks or a 0x prefix: an optional
\* sign, then the longest run of decimal digits; NaN when there is no digit.
\* parseInt(undefined) is NaN: an absent argument is the empty string here.
parseInt(s) ==
    LET signed == Len(s) > 0 /\ s[1] \in {43, 45}
        first  == IF signed THEN 2 ELSE 1
    IN  IF first > Len(s) \/ s[first] \notin 48..57 THEN NaN
        ELSE IF signed /\ s[1] = 45 THEN Num(0 - DigitRun(s, first, 0))
        ELSE Num(DigitRun(s, first, 0))

----------------------------------------------------------------------------
(* Wire codec *)

Threw == [ok |-> FALSE]

RECURSIVE ParseLabels(_, _, _, _)
\* the label loop of parseDNSQuery: offsets holds the offset read by each
\* iteration so far.  readUInt8 throws once the offset leaves the buffer.
ParseLabels(msg, offset, labels, offsets) ==
    IF offset >= Len(msg)
    THEN [ok |-> FALSE, labels |-> labels, offset |-> offset, offsets |-> Append(offsets, offset)]
    ELSE LET length == msg[offset + 1]
         IN  IF length = 0
             THEN [ok |-> TRUE, labels |-> labels, offset |-> offset + 1,
                   offsets |-> Append(offsets, offset)]
             ELSE ParseLabels(msg, offset + length + 1,
                              Append(labels, Slice(msg, offset + 1, offset + 1 + length)),
                              Append(offsets, offset))

HeaderLen == 12

\* parseDNSQuery whose reads past the end of the buffer yield 0 instead of throwing
parseDNSQuery_ZeroFill(msg) ==
    LET padded == msg \o [i \in 1..300 |-> 0]
        r      == ParseLabels(padded, 12, <<>>, <<>>)
    IN  [ok      |-> TRUE,
         offsets |-> r.offsets,
         header  |-> [id      |-> RdU16(padded, 0), flags   |-> RdU16(padded, 2),
                      qdcount |-> RdU16(padded, 4), ancount |-> RdU16(padded, 6),
                      nscount |-> RdU16(padded, 8), arcount |-> RdU16(padded, 10)],
         domain  |-> Join(r.labels),
         type    |-> RdU16(padded, r.offset),
         class   |-> RdU16(padded, r.offset + 2)]

\* parseDNSQuery(msg): the parsed query, or ok = FALSE when a read throws
parseDNSQuery(msg) ==
    IF Len(msg) < HeaderLen THEN [ok |-> FALSE, offsets |-> <<>>]
    ELSE LET r == ParseLabels(msg, HeaderLen, <<>>, <<>>)
         IN  IF ~r.ok \/ r.offset + 4 > Len(msg) THEN [ok |-> FALSE, offsets |-> r.offsets]
             ELSE [ok      |-> TRUE,
                   offsets |-> r.offsets,
                   header  |-> [id      |-> RdU16(msg, 0), flags   |-> RdU16(msg, 2),
                                qdcount |-> RdU16(msg, 4), ancount |-> RdU16(msg, 6),
                                nscount |-> RdU16(msg, 8), arcount |-> RdU16(msg, 10)],
                   domain  |-> Join(r.labels),
                   type    |-> RdU16(msg, r.offset),
                   class   |-> RdU16(msg, r.offset + 2)]

\* createDNSErrorResponse with the flags written at offset 0, over the transaction id
createDNSErrorResponse_AtOffset0(originalMsg) ==
    IF Len(originalMsg) < 2 THEN Threw
    ELSE [ok   |-> TRUE,
          data |-> [i \in 1..Len(originalMsg) |->
                        IF i \in {1, 2} THEN <<129, 131>>[i] ELSE originalMsg[i]]]

\* createDNSErrorResponse(originalMsg): a copy with 0x8183 written at offset 2;
\* writeUInt16BE throws on a buffer shorter than 4 bytes
ErrorFlags == <<129, 131>>

createDNSErrorResponse(originalMsg) ==
    IF Len(originalMsg) < 4 THEN Threw
    ELSE [ok   |-> TRUE,
          data |-> [i \in 1..Len(originalMsg) |->
                        IF i \in {3, 4} THEN ErrorFlags[i - 2] ELSE originalMsg[i]]]

\* the question-copy loop of createDNSResponse: the first offset from `offset`
\* on that holds a zero byte (-1: the read leaves the buffer)
NameEnd_FirstLabel(msg, offset) ==
    IF offset >= Len(msg) THEN 0 - 1 ELSE Min(offset + 1 + msg[offset + 1], Len(msg) - 1)
NameEnd(msg, offset) ==
    LET zeros == {i \in offset..(Len(msg) - 1) : msg[i + 1] = 0}
    IN  IF zeros = {} THEN 0 - 1
        ELSE CHOOSE i \in zeros : \A j \in zeros : i <= j

\* response.writeUInt8(parseInt(part), offset) for each part of record.value:
\* NaN is stored as 0, a value outside 0..255 throws
Octets(value) ==
    LET parts == Split(value, 46)
    IN  [i \in 1..Len(parts) |-> parseInt(parts[i])]

BufSize == 512

\* createDNSResponse(query, record, originalMsg): the answer datagram, or
\* ok = FALSE when a write throws: writeUInt32BE of a TTL outside 0..2^32-1
\* (the TTLs drawn below stay under 2^31, so only the lower end can be left),
\* writeUInt8 of an octet outside 0..255, or a write past the 512-byte buffer.
createDNSResponse_LowerCased(query, record, originalMsg) ==
    LET e        == NameEnd(originalMsg, HeaderLen)
        header   == <<originalMsg[1], originalMsg[2], 129, 128,
                      originalMsg[5], originalMsg[6], 0, 1>> \o SubSeq(originalMsg, 9, 12)
        qtail    == Slice(originalMsg, e + 1, e + 5)
        question == toLowerCase(Slice(originalMsg, HeaderLen, e)) \o <<0>> \o qtail
                        \o [i \in 1..(4 - Len(qtail)) |-> 0]
        octets   == Octets(record.value)
        octetsOk == \A i \in 1..Len(octets) : octets[i].nan \/ octets[i].n \in 0..255
        rdata    == IF record.type = "A"
                    THEN <<0, 4>> \o [i \in 1..Len(octets) |->
                                          IF octets[i].nan THEN 0 ELSE octets[i].n]
                    ELSE <<>>
        length   == HeaderLen + Len(question) + 10 + Len(rdata)
    IN  IF e < 0 \/ record.ttl < 0 \/ (record.type = "A" /\ ~octetsOk) \/ length > BufSize
        THEN Threw
        ELSE [ok   |-> TRUE,
              data |-> header \o question \o <<192, 12, 0, 1, 0, 1>> \o U32(record.ttl) \o rdata]
createDNSResponse(query, record, originalMsg) ==
    LET e        == NameEnd(originalMsg, HeaderLen)
        header   == <<originalMsg[1], originalMsg[2], 129, 128,
                      originalMsg[5], originalMsg[6], 0, 1>> \o SubSeq(originalMsg, 9, 12)
        qtail    == Slice(originalMsg, e + 1, e + 5)
        question == Slice(originalMsg, HeaderLen, e) \o <<0>> \o qtail
                        \o [i \in 1..(4 - Len(qtail)) |-> 0]
        octets   == Octets(record.value)
        octetsOk == \A i \in 1..Len(octets) : octets[i].nan \/ octets[i].n \in 0..255
        rdata    == IF record.type = "A"
                    THEN <<0, 4>> \o [i \in 1..Len(octets) |->
                                          IF octets[i].nan THEN 0 ELSE octets[i].n]
                    ELSE <<>>
        length   == HeaderLen + Len(question) + 10 + Len(rdata)
    IN  IF e < 0 \/ record.ttl < 0 \/ (record.type = "A" /\ ~octetsOk) \/ length > BufSize
        THEN Threw
        ELSE [ok   |-> TRUE,
              data |-> header \o question \o <<192, 12, 0, 1, 0, 1>> \o U32(record.ttl) \o rdata]

----------------------------------------------------------------------------
(* Names, addresses and the default configuration *)

L_gisctf  == <<103, 105, 115, 45, 99, 116, 102>>   \* "gis-ctf"
L_local   == <<108, 111, 99, 97, 108>>             \* "local"
L_api     == <<97, 112, 105>>                      \* "api"
L_backend == <<98, 97, 99, 107, 101, 110, 100>>    \* "backend"
L_team    == <<116, 101, 97, 109>>                 \* "team"
L_new     == <<110, 101, 119>>                     \* "new"
L_NEW     == <<78, 101, 119>>                      \* "New"
L_svc     == <<115, 118, 99>>                      \* "svc"
L_NEWUP   == <<78, 69, 87>>                        \* "NEW"
L_LOCALUP == <<76, 79, 67, 65, 76>>                \* "LOCAL"
L_a       == <<97>>                                \* "a"
L_star    == <<42>>                                \* "*"
L_example == <<101, 120, 97, 109, 112, 108, 101>>  \* "example"
L_test    == <<116, 101, 115, 116>>                \* "test"

RECURSIVE Decimal(_)
\* the decimal digits of a natural number
Decimal(n) == IF n < 10 THEN <<48 + n>> ELSE Decimal(n \div 10) \o <<48 + (n % 10)>>

\* the dotted-quad text of an IPv4 address given as its four octets
Dotted(a) == Decimal(a[1]) \o <<46>> \o Decimal(a[2]) \o <<46>> \o Decimal(a[3])
                 \o <<46>> \o Decimal(a[4])

A_localhost == <<127, 0, 0, 1>>
A_team(n)   == <<192, 168, 1, 100 + n>>
A_new       == <<10, 0, 0, 5>>
A_upstream  == <<93, 184, 216, 34>>

IP_localhost == Dotted(A_localhost)   \* "127.0.0.1"
IP_new       == Dotted(A_new)         \* "10.0.0.5"
IP_upstream  == Dotted(A_upstream)    \* "93.184.216.34"

DefaultTTL == 300

Rec(type, value, ttl) == [type |-> type, value |-> value, ttl |-> ttl]
Entry(domain, record) == [domain |-> domain, record |-> record]

\* defaultConfig of loadDNSConfig: the domains in the order they are written
defaultConfig ==
    [domains |->
        <<Entry(Join(<<L_gisctf, L_local>>), Rec("A", IP_localhost, 300)),
          Entry(Join(<<L_api, L_gisctf, L_local>>), Rec("A", IP_localhost, 300)),
          Entry(Join(<<L_backend, L_gisctf, L_local>>), Rec("A", IP_localhost, 300))>>
        \o [n \in 1..5 |->
              Entry(Join(<<L_team \o <<48 + n>>, L_gisctf, L_local>>),
                    Rec("A", Dotted(A_team(n)), 300))],
     upstreamDNS |-> <<"8.8.8.8", "1.1.1.1">>]

\* Map.prototype.set(key, record)
MapSet(map, key, record) ==
    [k \in (DOMAIN map) \cup {key} |-> IF k = key THEN record ELSE map[k]]
\* Map.prototype.delete(key)
MapDelete(map, key) == [k \in (DOMAIN map) \ {key} |-> map[k]]

EmptyMap == [k \in {} |-> 0]

RECURSIVE LoadDomains(_, _)
\* the forEach of loadDNSConfig over Object.entries(config.domains):
\* set(domain.toLowerCase(), {type, value, ttl: record.ttl || 300})
LoadDomains(entries, map) ==
    IF Len(entries) = 0 THEN map
    ELSE LET e == Head(entries)
         IN  LoadDomains(Tail(entries),
                 MapSet(map, toLowerCase(e.domain),
                        Rec(e.record.type, e.record.value,
                            IF e.record.ttl = 0 THEN DefaultTTL ELSE e.record.ttl)))

\* loadDNSConfig for a configuration object: the records and the upstream list
loadDNSConfig(config) ==
    [dnsRecords |-> LoadDomains(config.domains, EmptyMap), upstreamDNS |-> config.upstreamDNS]

\* the states of the configuration source: no file; a file that cannot be read
\* or is not JSON; a file holding JSON
Absent == [kind |-> "absent"]
Garbled == [kind |-> "garbled"]
JsonFile(value) == [kind |-> "json", value |-> value]

\* loadDNSConfig as the constructor runs it: config is defaultConfig unless the
\* file exists and JSON.parse succeeds; Object.entries(config.domains) throws a
\* TypeError, outside the try block, when the parsed value has no domains
\* object; upstreamDNS falls back to ['8.8.8.8'] when the value has none.
loadConfigFile(file) ==
    LET config == IF file.kind = "json" THEN file.value ELSE defaultConfig
    IN  IF "domains" \notin DOMAIN config THEN Threw
        ELSE [ok          |-> TRUE,
              dnsRecords  |-> LoadDomains(config.domains, EmptyMap),
              upstreamDNS |-> IF "upstreamDNS" \in DOMAIN config
                              THEN config.upstreamDNS ELSE <<"8.8.8.8">>]

----------------------------------------------------------------------------
(* Datagrams and console lines the environment can produce *)

RECURSIVE EncodeName(_)
\* a domain name on the wire: length-prefixed labels, then the zero label
EncodeName(labels) ==
    IF Len(labels) = 0 THEN <<0>>
    ELSE <<Len(labels[1])>> \o labels[1] \o EncodeName(Tail(labels))

\* a standard one-question query (RD set), class IN
MkQuery(id, labels, qtype) ==
    U16(id) \o <<1, 0>> \o U16(1) \o U16(0) \o U16(0) \o U16(0)
        \o EncodeName(labels) \o U16(qtype) \o U16(1)

Prefix(msg, n) == SubSeq(msg, 1, n)

Q_hit  == MkQuery(4660, <<L_gisctf, L_local>>, 1)     \* id 0x1234, gis-ctf.local A
Q_new  == MkQuery(22136, <<L_NEW, L_local>>, 1)       \* id 0x5678, New.local A
Q_miss == MkQuery(48879, <<L_example, L_test>>, 1)    \* id 0xBEEF, example.test A

\* what an upstream resolver answers to msg (a name error when the answer does
\* not fit 512 bytes), and the same datagram under another
\* transaction id (the ephemeral socket accepts any datagram that reaches it)
UpstreamAnswer(msg) ==
    LET answer == createDNSResponse(parseDNSQuery(msg), Rec("A", IP_upstream, 60), msg)
    IN  IF answer.ok THEN answer.data ELSE createDNSErrorResponse(msg).data
OtherId(data) == <<data[1], (data[2] + 1) % 256>> \o SubSeq(data, 3, Len(data))
Replies(msg) == {UpstreamAnswer(msg), OtherId(UpstreamAnswer(msg))}

Clients == {[address |-> "10.0.0.2", port |-> 40001], [address |-> "10.0.0.3", port |-> 40002]}

MaxQueries == 2

\* datagrams arriving at the server with several queries in flight: a local
\* hit, a name that hits only once it has been added, a miss, and a datagram
\* too short to carry the flags field
SrvMsgs == {Q_hit, Q_new, Q_miss, Prefix(Q_miss, 2)}

Q_svc == MkQuery(43981, <<L_svc, L_local>>, 1)        \* id 0xABCD, svc.local A

\* datagrams for the one-query server: every prefix (every truncation, the
\* empty datagram included) of each well-formed query
WireQueries == {Q_hit, Q_new, Q_miss, Q_svc}

\* a name of nine 63-byte labels: 577 bytes on the wire, a datagram of 593
L_long == [i \in 1..9 |-> [j \in 1..63 |-> 97]]
Q_long == MkQuery(51966, L_long, 1)                   \* id 0xCAFE

\* two questions under qdcount 2: gis-ctf.local A, then api.gis-ctf.local A
Q_two ==
    U16(4661) \o <<1, 0>> \o U16(2) \o U16(0) \o U16(0) \o U16(0)
        \o EncodeName(<<L_gisctf, L_local>>) \o U16(1) \o U16(1)
        \o EncodeName(<<L_api, L_gisctf, L_local>>) \o U16(1) \o U16(1)

Q_aaaa == MkQuery(4662, <<L_gisctf, L_local>>, 28)    \* gis-ctf.local AAAA

\* gis-ctf.local A with an EDNS0 OPT record (root name, type 41, UDP payload
\* size 4096, no options) under arcount 1
Q_edns ==
    U16(4666) \o <<1, 0>> \o U16(1) \o U16(0) \o U16(0) \o U16(1)
        \o EncodeName(<<L_gisctf, L_local>>) \o U16(1) \o U16(1)
        \o <<0>> \o U16(41) \o U16(4096) \o <<0, 0, 0, 0>> \o U16(0)

WireMsgs == UNION {{Prefix(m, n) : n \in 0..Len(m)} : m \in WireQueries}
                \cup {Q_long, Q_two, Q_aaaa, Q_edns}

----------------------------------------------------------------------------
(* Query dispatcher and upstream forwarder *)

\* this.server.send(data, rinfo.port, rinfo.address) for query q; via names the
\* call site
Send_HeldBack(q, rinfo, via, data) ==
    IF via = "answer" /\ \E p \in 1..Len(queries) : queries[p].timer = "armed"
    THEN wire
    ELSE Append(wire, [q |-> q, to |-> rinfo, via |-> via, data |-> data])
Send(q, rinfo, via, data) ==
    Append(wire, [q |-> q, to |-> rinfo, via |-> via, data |-> data])

\* dnsRecords.get found nothing
NoRecord == Rec("undefined", <<>>, 0)

\* Map.prototype.get(key)
MapGet(map, key) == IF key \in DOMAIN map THEN map[key] ELSE NoRecord

\* the lookup of handleDNSQuery in a store: dnsRecords.get(query.domain.toLowerCase())
lookup_CaseSensitive(map, domain) == MapGet(map, domain)
lookup_ParentFallback(map, domain) ==
    LET dots   == {i \in 1..Len(domain) : domain[i] = 46}
        first  == CHOOSE i \in dots : \A j \in dots : i <= j
        parent == IF dots = {} THEN domain ELSE SubSeq(domain, first + 1, Len(domain))
    IN  IF toLowerCase(domain) \in DOMAIN map THEN map[toLowerCase(domain)]
        ELSE MapGet(map, toLowerCase(parent))
lookup(map, domain) == MapGet(map, toLowerCase(domain))

\* a query that never reached forwardDNSQuery; record is what the lookup returned
NoForward(msg, rinfo, path, record) ==
    [msg |-> msg, rinfo |-> rinfo, path |-> path, record |-> record, upstream |-> "none",
     upSent |-> <<>>, sendCb |-> "none", sock |-> "none", timer |-> "none"]

\* Math.floor(Math.random() * length) indexes the list; an empty list yields undefined
UpstreamChoices == IF Len(upstreamDNS) = 0 THEN {"undefined"}
                   ELSE {upstreamDNS[i] : i \in 1..Len(upstreamDNS)}

UpstreamPort == 53

\* forwardDNSQuery(msg, rinfo, query), synchronous part: a fresh socket, the
\* send to the chosen upstream queued, both handlers and the timer installed
forwardDNSQuery(msg, rinfo, upstream) ==
    [msg |-> msg, rinfo |-> rinfo, path |-> "forwarded", record |-> NoRecord,
     upstream |-> upstream,
     upSent |-> <<[data |-> msg, port |-> UpstreamPort, address |-> upstream]>>,
     sendCb |-> "pending", sock |-> "open", timer |-> "armed"]

\* handleDNSQuery(msg, rinfo): the 'message' handler of the listening socket.
\* An exception thrown inside the catch block is uncaught: the process dies.
handleDNSQuery(msg, rinfo) ==
    /\ proc = "running"
    /\ LET q             == Len(queries) + 1
           query         == parseDNSQuery(msg)
           record        == lookup(dnsRecords, query.domain)
           hit           == query.ok /\ record # NoRecord
           response      == createDNSResponse(query, record, msg)
           caught        == ~query.ok \/ (hit /\ ~response.ok)
           errorResponse == createDNSErrorResponse(msg)
       IN  IF caught
           THEN IF errorResponse.ok
                THEN /\ wire' = Send(q, rinfo, "catch", errorResponse.data)
                     /\ queries' = Append(queries,
                            IF query.ok THEN NoForward(msg, rinfo, "hitFailed", record)
                            ELSE NoForward(msg, rinfo, "parseFailed", NoRecord))
                     /\ proc' = proc
                ELSE /\ proc' = "crashed"
                     /\ queries' = Append(queries, NoForward(msg, rinfo, "parseFailed", NoRecord))
                     /\ wire' = wire
           ELSE IF hit
           THEN /\ wire' = Send(q, rinfo, "answer", response.data)
                /\ queries' = Append(queries, NoForward(msg, rinfo, "hit", record))
                /\ proc' = proc
           ELSE /\ \E upstream \in UpstreamChoices :
                        queries' = Append(queries, forwardDNSQuery(msg, rinfo, upstream))
                /\ UNCHANGED <<wire, proc>>
    /\ UNCHANGED <<configFile, dnsRecords, upstreamDNS>>

\* the callback of upstreamSocket.send, err set or not.  The datagram leaves (or
\* fails to leave) long before the 5-second timer, so the callback runs while
\* the timer is still armed.
SendCallback(q, err) ==
    /\ proc = "running"
    /\ q \in 1..Len(queries)
    /\ queries[q].sendCb = "pending"
    /\ queries[q].timer = "armed"
    /\ IF err
       THEN /\ wire' = Send(q, queries[q].rinfo, "sendError",
                            createDNSErrorResponse(queries[q].msg).data)
            /\ queries' = [queries EXCEPT ![q].sendCb = "err"]
       ELSE /\ queries' = [queries EXCEPT ![q].sendCb = "ok"]
            /\ wire' = wire
    /\ UNCHANGED <<configFile, dnsRecords, upstreamDNS, proc>>

\* upstreamSocket.on('message'): a datagram reaches the open ephemeral socket
\* after the query went out; it is relayed as it is and the socket is closed
UpstreamMessage(q, response) ==
    /\ proc = "running"
    /\ q \in 1..Len(queries)
    /\ queries[q].sock = "open"
    /\ queries[q].sendCb = "ok"
    /\ wire' = Send(q, queries[q].rinfo, "relay", response)
    /\ queries' = [queries EXCEPT ![q].sock = "closed"]
    /\ UNCHANGED <<configFile, dnsRecords, upstreamDNS, proc>>

\* the setTimeout callback if close() on a closed socket were harmless: the
\* error response is sent whether or not a reply was relayed
Timeout_CloseNeverThrows(q) ==
    /\ proc = "running"
    /\ q \in 1..Len(queries)
    /\ queries[q].timer = "armed"
    /\ queries[q].sendCb # "pending"
    /\ queries' = [queries EXCEPT ![q].timer = "fired", ![q].sock = "closed"]
    /\ wire' = Send(q, queries[q].rinfo, "timeout",
                    createDNSErrorResponse(queries[q].msg).data)
    /\ UNCHANGED <<configFile, dnsRecords, upstreamDNS, proc>>

\* the setTimeout callback without its upstreamSocket.close()
Timeout_SocketLeftOpen(q) ==
    /\ proc = "running"
    /\ q \in 1..Len(queries)
    /\ queries[q].timer = "armed"
    /\ queries[q].sendCb # "pending"
    /\ queries' = [queries EXCEPT ![q].timer = "fired"]
    /\ wire' = Send(q, queries[q].rinfo, "timeout",
                    createDNSErrorResponse(queries[q].msg).data)
    /\ UNCHANGED <<configFile, dnsRecords, upstreamDNS, proc>>

\* the setTimeout callback: upstreamSocket.close() throws ERR_SOCKET_DGRAM_NOT_RUNNING
\* on a socket that was closed already, and nothing catches it
Timeout(q) ==
    /\ proc = "running"
    /\ q \in 1..Len(queries)
    /\ queries[q].timer = "armed"
    /\ queries[q].sendCb # "pending"
    /\ IF queries[q].sock = "closed"
       THEN /\ proc' = "crashed"
            /\ queries' = [queries EXCEPT ![q].timer = "fired"]
            /\ wire' = wire
       ELSE /\ queries' = [queries EXCEPT ![q].timer = "fired", ![q].sock = "closed"]
            /\ wire' = Send(q, queries[q].rinfo, "timeout",
                            createDNSErrorResponse(queries[q].msg).data)
            /\ proc' = proc
    /\ UNCHANGED <<configFile, dnsRecords, upstreamDNS>>

----------------------------------------------------------------------------
(* Record store and admin console *)

\* the store after addRecord(domain, type, value, ttl) on the store map
addRecordTo_Merging(map, domain, type, value, ttl) ==
    LET key == toLowerCase(domain)
    IN  MapSet(map, key,
               IF key \in DOMAIN map
               THEN Rec(type, map[key].value \o <<44>> \o value, ttl)
               ELSE Rec(type, value, ttl))
addRecordTo_InPlace(map, domain, type, value, ttl) ==
    LET key == toLowerCase(domain)
    IN  MapSet(map, key,
               IF key \in DOMAIN map
               THEN Rec(map[key].type, value, map[key].ttl)
               ELSE Rec(type, value, ttl))
addRecordTo_RawKey(map, domain, type, value, ttl) ==
    MapSet(map, domain, Rec(type, value, ttl))
addRecordTo(map, domain, type, value, ttl) ==
    MapSet(map, toLowerCase(domain), Rec(type, value, ttl))

\* addRecord(domain, type, value, ttl)
addRecord(domain, type, value, ttl) ==
    /\ dnsRecords' = addRecordTo(dnsRecords, domain, type, value, ttl)
    /\ UNCHANGED <<configFile, upstreamDNS, proc, queries, wire>>

\* removeRecord(domain) on the store map: what it returns (the result of
\* Map.prototype.delete) and the store it leaves
removeRecordFrom_Clearing(map, domain) ==
    [removed |-> toLowerCase(domain) \in DOMAIN map,
     map     |-> IF toLowerCase(domain) \in DOMAIN map THEN EmptyMap ELSE map]
removeRecordFrom(map, domain) ==
    [removed |-> toLowerCase(domain) \in DOMAIN map,
     map     |-> MapDelete(map, toLowerCase(domain))]

\* removeRecord(domain)
removeRecord(domain) ==
    /\ dnsRecords' = removeRecordFrom(dnsRecords, domain).map
    /\ UNCHANGED <<configFile, upstreamDNS, proc, queries, wire>>

\* parseInt(args[3]) || 300
ConsoleTTL(arg) ==
    LET n == parseInt(arg) IN IF n.nan \/ n.n = 0 THEN DefaultTTL ELSE n.n

\* the stdin 'data' handler for one line: command, then its arguments.  The
\* handler is installed before the bind completes, but the bind's outcome is
\* delivered from the nextTick queue, ahead of any input; the process stays
\* alive on stdin whether or not the socket is bound.
Console_LooseAdd(command, args) ==
    /\ proc \in {"running", "unbound"}
    /\ IF command = "add" /\ Len(args) >= 2
       THEN addRecord(args[1], args[2], IF Len(args) >= 3 THEN args[3] ELSE <<>>,
                      ConsoleTTL(IF Len(args) >= 4 THEN args[4] ELSE <<>>))
       ELSE IF command = "remove" /\ Len(args) >= 1 /\ Len(args[1]) > 0
       THEN removeRecord(args[1])
       ELSE IF command \in {"quit", "exit"}
       THEN /\ proc' = "exited"
            /\ UNCHANGED <<configFile, dnsRecords, upstreamDNS, queries, wire>>
       ELSE UNCHANGED vars
Console(command, args) ==
    /\ proc \in {"running", "unbound"}
    /\ IF command = "add" /\ Len(args) >= 3
       THEN addRecord(args[1], args[2], args[3],
                      ConsoleTTL(IF Len(args) >= 4 THEN args[4] ELSE <<>>))
       ELSE IF command = "remove" /\ Len(args) >= 1 /\ Len(args[1]) > 0
       THEN removeRecord(args[1])
       ELSE IF command \in {"quit", "exit"}
       THEN /\ proc' = "exited"
            /\ UNCHANGED <<configFile, dnsRecords, upstreamDNS, queries, wire>>
       ELSE UNCHANGED vars

D_new == Join(<<L_new, L_local>>)
D_hit == Join(<<L_gisctf, L_local>>)
D_svc == Join(<<L_svc, L_local>>)
D_long == Join(L_long)
V_hello == <<104, 101, 108, 108, 111>>    \* "hello"

\* console lines with several queries in flight: add without a TTL and with a
\* negative one, add with too few arguments, remove, list, quit
SrvLines ==
    {<<"add", <<D_new, "A", IP_new>> >>,
     <<"add", <<D_new, "A", IP_new, <<45, 53>> >> >>,      \* ttl "-5"
     <<"add", <<D_new, "A">> >>,
     <<"remove", <<D_new>> >>,
     <<"remove", <<>> >>,
     <<"list", <<>> >>,
     <<"quit", <<>> >>}

\* console lines for the one-query server: also a TTL of 60, of 0, a removed
\* default name, the 575-character name, an A record whose value is no
\* address, help and an unknown command
WireLines ==
    SrvLines \cup
    {<<"add", <<D_new, "A", IP_new, <<54, 48>> >> >>,      \* ttl "60"
     <<"add", <<D_new, "A", IP_new, <<48>> >> >>,          \* ttl "0"
     <<"remove", <<D_hit>> >>,
     <<"add", <<D_long, "A", IP_new>> >>,
     <<"add", <<D_new, "A", V_hello>> >>,
     <<"help", <<>> >>,
     <<"", <<>> >>}

\* a configuration file holding the single record svc.local A 127.0.0.1 300
svcConfig ==
    [domains |-> <<Entry(D_svc, Rec("A", IP_localhost, 300))>>,
     upstreamDNS |-> <<"8.8.8.8">>]

D_New    == Join(<<L_NEW, L_local>>)            \* "New.local"
D_NEWUP  == Join(<<L_NEWUP, L_LOCALUP>>)        \* "NEW.LOCAL"
D_sub    == Join(<<L_a, L_new, L_local>>)       \* "a.new.local"
D_parent == L_local                             \* "local"
D_wild   == Join(<<L_star, L_local>>)           \* "*.local"

\* the names the store server is asked about and told about
StoreDomains == {D_new, D_New, D_NEWUP, D_sub, D_parent, D_wild, D_hit, D_svc}

\* the console line  add <domain> <type> <value> <ttl>
AddLine(domain, type, value, ttl) == <<"add", <<domain, type, value, Decimal(ttl)>> >>

\* the TTLs given on the console as decimal numbers
SuppliedTTLs == {0, 60}

\* console lines for the store server: names in several spellings, a TXT
\* record without a TTL, a wildcard and a parent name, explicit TTLs, removals
\* in another spelling, help and an unknown command
StoreLines ==
    {AddLine(D_New, "A", IP_new, ttl) : ttl \in SuppliedTTLs} \cup
    {<<"add", <<D_new, "TXT", V_hello>> >>,
     <<"add", <<D_wild, "A", IP_localhost>> >>,
     <<"add", <<D_parent, "A", IP_localhost>> >>,
     <<"add", <<D_new, "A">> >>,
     <<"remove", <<D_NEWUP>> >>,
     <<"remove", <<D_sub>> >>,
     <<"remove", <<>> >>,
     <<"list", <<>> >>,
     <<"help", <<>> >>,
     <<"flush", <<D_new>> >>,
     <<"quit", <<>> >>}

Q_upper  == MkQuery(4663, <<L_NEWUP, L_LOCALUP>>, 1)       \* NEW.LOCAL A
Q_sub    == MkQuery(4664, <<L_a, L_new, L_local>>, 1)      \* a.new.local A
Q_parent == MkQuery(4665, <<L_local>>, 1)                  \* local A

\* New.local TXT in class CH (3)
Q_chaos ==
    U16(4667) \o <<1, 0>> \o U16(1) \o U16(0) \o U16(0) \o U16(0)
        \o EncodeName(<<L_NEW, L_local>>) \o U16(16) \o U16(3)

\* datagrams for the store server
StoreMsgs == {Q_new, Q_upper, Q_sub, Q_parent, Q_chaos}

\* a file whose JSON has no domains object:  {"upstreamDNS": ["8.8.8.8"]}
noDomainsConfig == [upstreamDNS |-> <<"8.8.8.8">>]

\* a file with one mixed-case name, a TTL of 0 and no upstreamDNS
mixedConfig == [domains |-> <<Entry(D_New, Rec("A", IP_new, 0))>>]

\* a file whose upstreamDNS is the empty list
emptyUpstreamConfig ==
    [domains |-> <<Entry(D_svc, Rec("A", IP_localhost, 300))>>, upstreamDNS |-> <<>>]

ConfigFiles == {Absent, Garbled, JsonFile(svcConfig), JsonFile(noDomainsConfig),
                JsonFile(mixedConfig), JsonFile(emptyUpstreamConfig)}

----------------------------------------------------------------------------
(* The server *)

\* the state after new AlodekDNS(...) on the given configuration source and
\* the call of start(): bind pending, or the process dead of the exception
\* the constructor threw
Constructed(file) ==
    /\ configFile = file
    /\ LET loaded == loadConfigFile(file)
       IN  IF loaded.ok
           THEN /\ dnsRecords = loaded.dnsRecords
                /\ upstreamDNS = loaded.upstreamDNS
                /\ proc = "starting"
           ELSE /\ dnsRecords = EmptyMap
                /\ upstreamDNS = <<>>
                /\ proc = "failed"
    /\ queries = <<>>
    /\ wire = <<>>

\* start(): this.server.bind(port, host, callback).  dgram calls the callback,
\* without arguments, on 'listening' only; a failed bind emits 'error', which the
\* handler of setupServer logs, and the callback never runs: the promise is
\* neither resolved nor rejected and main's catch (process.exit(1)) never runs.
start(bindError) ==
    /\ proc = "starting"
    /\ proc' = IF bindError = "none" THEN "running" ELSE "unbound"
    /\ UNCHANGED <<configFile, dnsRecords, upstreamDNS, queries, wire>>

BindErrors == {"none", "EADDRINUSE", "EACCES"}

Bind == \E bindError \in BindErrors : start(bindError)

Receive(msgs, cap) ==
    /\ Len(queries) < cap
    /\ \E msg \in msgs, rinfo \in Clients : handleDNSQuery(msg, rinfo)

SendDone == \E q \in 1..Len(queries), err \in BOOLEAN : SendCallback(q, err)

Reply == \E q \in {i \in 1..Len(queries) : queries[i].path = "forwarded"} :
             \E response \in Replies(queries[q].msg) : UpstreamMessage(q, response)

Expire == \E q \in 1..Len(queries) : Timeout(q)

Admin(lines) == \E line \in lines : Console(line[1], line[2])

\* the server on its default configuration, MaxQueries datagrams
Init == Constructed(Absent)
Next == Bind \/ Receive(SrvMsgs, MaxQueries) \/ SendDone \/ Reply \/ Expire \/ Admin(SrvLines)
Spec == Init /\ [][Next]_vars

\* the server on either configuration handling one datagram drawn from WireMsgs
WireInit == \E file \in {Absent, JsonFile(svcConfig)} : Constructed(file)
WireNext == Bind \/ Receive(WireMsgs, 1) \/ SendDone \/ Reply \/ Expire \/ Admin(WireLines)
WireSpec == WireInit /\ [][WireNext]_vars

\* the server on every state of the configuration source, with one query and
\* the console lines that exercise the store
StoreInit == \E file \in ConfigFiles : Constructed(file)
StoreNext == Bind \/ Receive(StoreMsgs, 1) \/ SendDone \/ Reply \/ Expire \/ Admin(StoreLines)
StoreSpec == StoreInit /\ [][StoreNext]_vars

----------------------------------------------------------------------------
(* What a client sees *)

\* the datagrams sent for query q, as indices into wire
Sent(q) == {i \in 1..Len(wire) : wire[i].q = q}
Via(q, via) == {i \in Sent(q) : wire[i].via = via}

Qs == 1..Len(queries)
Forwarded(q) == queries[q].path = "forwarded"

\* a datagram is error-flagged: it is a response (QR set) with a non-zero RCODE
ErrorFlagged(data) == Len(data) >= 4 /\ data[3] >= 128 /\ data[4] % 16 # 0
SameId(data, msg) == Len(data) >= 2 /\ Len(msg) >= 2 /\ data[1] = msg[1] /\ data[2] = msg[2]

RECURSIVE SkipName(_, _)
\* a resolver's walk over an encoded name: the offset after its zero label, -1
\* when the name leaves the datagram
SkipName(data, offset) ==
    IF offset >= Len(data) THEN 0 - 1
    ELSE IF data[offset + 1] = 0 THEN offset + 1
    ELSE SkipName(data, offset + 1 + data[offset + 1])

\* a resolver's reading of a one-question, one-answer response
DecodeAnswer(data) ==
    LET a == SkipName(data, 12) + 4      \* where the answer record starts
    IN  IF Len(data) < 12 \/ SkipName(data, 12) < 0 \/ RdU16(data, 6) # 1
           \/ Len(data) < a + 12
        THEN [ok |-> FALSE]
        ELSE [ok |-> Len(data) = a + 12 + RdU16(data, a + 10),
              id |-> RdU16(data, 0), flags |-> RdU16(data, 2),
              name |-> RdU16(data, a), type |-> RdU16(data, a + 2),
              class |-> RdU16(data, a + 4), ttl |-> RdU32(data, a + 6),
              rdlength |-> RdU16(data, a + 10), rdata |-> Slice(data, a + 12, Len(data))]

Addresses == {A_localhost, A_new, A_upstream} \cup {A_team(n) : n \in 1..5}

\* the prefixes of a well-formed query that end inside the name: in the middle
\* of a label, or before the terminating zero label (5 bytes before the end)
TruncatedNames == UNION {{Prefix(m, n) : n \in 12..(Len(m) - 5)} : m \in WireQueries}

----------------------------------------------------------------------------
(* Claims *)

\* C1: for a forwarded query whose send succeeded, the client is never sent both
\* the upstream reply and the synthesized error, and once the reply has arrived
\* or the deadline has expired it has been sent exactly one of the two.
C1_ExactlyOneOutcome ==
    \A q \in Qs : (Forwarded(q) /\ queries[q].sendCb = "ok") =>
        /\ Cardinality(Sent(q)) <= 1
        /\ \A i \in Sent(q) : wire[i].via \in {"relay", "timeout"}
        /\ (queries[q].timer = "fired" \/ queries[q].sock = "closed")
               => Cardinality(Sent(q)) = 1

\* the reply was relayed and the deadline expired afterwards
C1_ReplyThenDeadline ==
    \E q \in Qs : /\ Forwarded(q) /\ queries[q].sendCb = "ok"
                  /\ queries[q].timer = "fired" /\ Via(q, "relay") # {}

\* C2 (as stated): a datagram that cannot be parsed leaves the process running
\* and is answered with a synthesized error response, whatever its length.
C2_MalformedAnsweredNoCrash ==
    \A q \in Qs : queries[q].path = "parseFailed" =>
        (proc # "crashed" /\ Via(q, "catch") # {})

\* C3 (as stated, in its finite form): a query whose handling has run to its end
\* (the handler returned without forwarding, or the forward's deadline expired)
\* has had at least one datagram sent to its client address and port.
C3_NoPathEndsInSilence ==
    \A q \in Qs : (~Forwarded(q) \/ queries[q].timer = "fired") =>
        \E i \in Sent(q) : wire[i].to = queries[q].rinfo

\* C4 (as stated): when the send to the upstream failed, exactly one datagram is
\* sent to the client for that query; the deadline's expiry adds nothing.
C4_SendFailureIsTerminal ==
    \A q \in Qs : queries[q].sendCb = "err" =>
        (Cardinality(Sent(q)) = 1 /\ Via(q, "sendError") = Sent(q))

\* C5 (as stated): after a reply was relayed, the expiry of the deadline sends
\* nothing, raises nothing and leaves the process running.
C5_DeadlineAfterReplyIsNoOp ==
    \A q \in Qs : (Via(q, "relay") # {} /\ queries[q].timer = "fired") =>
        (proc # "crashed" /\ Cardinality(Sent(q)) = 1)

\* C6 (as stated): a well-formed query that matches a stored A record holding an
\* IPv4 address is answered by a datagram with the query's transaction id whose
\* single answer decodes to the record's four octets and the record's TTL.
C6_AnswerDecodesToRecord ==
    \A q \in Qs : \A a \in Addresses :
        (parseDNSQuery(queries[q].msg).ok /\ queries[q].record.type = "A"
            /\ queries[q].record.value = Dotted(a)) =>
        \E i \in Sent(q) :
            LET r == DecodeAnswer(wire[i].data)
            IN  /\ r.ok
                /\ r.id = parseDNSQuery(queries[q].msg).header.id
                /\ r.rdlength = 4 /\ r.rdata = a
                /\ r.ttl = queries[q].record.ttl

\* C7 (as stated): every datagram sent to the client of a forwarded query carries
\* the query's transaction id, and is the relayed reply or an error-flagged
\* synthesized response.
C7_ForwardedKeepsTransactionId ==
    \A q \in Qs : Forwarded(q) =>
        \A i \in Sent(q) :
            /\ SameId(wire[i].data, queries[q].msg)
            /\ wire[i].via = "relay" \/ ErrorFlagged(wire[i].data)

\* C8: when a forwarded query was sent, no reply arrived and the deadline has
\* expired, the ephemeral socket is closed, the client has been sent exactly one
\* datagram, error-flagged and with the query's transaction id, and the query
\* went to one upstream only.
C8_TimeoutClosesAndReportsError ==
    \A q \in Qs :
        (Forwarded(q) /\ queries[q].sendCb = "ok" /\ queries[q].timer = "fired"
            /\ Via(q, "relay") = {}) =>
        /\ queries[q].sock = "closed"
        /\ Cardinality(Sent(q)) = 1
        /\ \A i \in Sent(q) : /\ wire[i].to = queries[q].rinfo
                              /\ ErrorFlagged(wire[i].data)
                              /\ SameId(wire[i].data, queries[q].msg)
        /\ Len(queries[q].upSent) = 1

\* the deadline of a sent, unanswered query has expired
C8_DeadlineExpiredUnanswered ==
    \E q \in Qs : /\ Forwarded(q) /\ queries[q].sendCb = "ok"
                  /\ queries[q].timer = "fired" /\ Via(q, "relay") = {}
                  /\ proc = "running"

\* C9: a query cut inside its name makes the parser fail after at most one
\* read per remaining byte, each read at a larger offset than the one before,
\* and is answered by one error-flagged response, neither answered nor forwarded.
C9_TruncatedNameYieldsError ==
    \A q \in Qs : queries[q].msg \in TruncatedNames =>
        LET p == parseDNSQuery(queries[q].msg)
        IN  /\ ~p.ok
            /\ Len(p.offsets) <= Len(queries[q].msg) - HeaderLen + 1
            /\ \A k \in 1..(Len(p.offsets) - 1) : p.offsets[k] < p.offsets[k + 1]
            /\ queries[q].path = "parseFailed"
            /\ Cardinality(Sent(q)) = 1
            /\ \A i \in Sent(q) : wire[i].via = "catch" /\ ErrorFlagged(wire[i].data)

\* a query cut in the middle of its second label has been handled
C9_CutMidLabelHandled ==
    \E q \in Qs : /\ queries[q].msg \in TruncatedNames
                  /\ Len(parseDNSQuery(queries[q].msg).offsets) = 3
                  /\ parseDNSQuery(queries[q].msg).offsets[3] > Len(queries[q].msg)
                  /\ Sent(q) # {}

\* C10: every synthesized error response (malformed query, failed answer, send
\* failure, timeout) has the length of the original datagram and its bytes,
\* except the two at offset 2, which are 0x81 0x83.
C10_ErrorResponseFrame ==
    \A i \in 1..Len(wire) : wire[i].via \in {"catch", "sendError", "timeout"} =>
        LET m == queries[wire[i].q].msg
            d == wire[i].data
        IN  /\ Len(d) = Len(m)
            /\ \A k \in 1..Len(m) :
                   d[k] = IF k = 3 THEN 129 ELSE IF k = 4 THEN 131 ELSE m[k]

\* a send failure and then the timeout have each produced an error response
\* for a query with a question section
C10_ErrorsOnTwoPaths ==
    \E q \in Qs : /\ Via(q, "sendError") # {} /\ Via(q, "timeout") # {}
                  /\ Len(queries[q].msg) > HeaderLen


----------------------------------------------------------------------------
(* Response size *)

\* C11: every datagram the server builds itself and sends to a client, answer
\* or error response, is at most 512 bytes long, whatever the size of the
\* inbound datagram and the length of its question name.
C11_ResponsesFit512 ==
    \A i \in DOMAIN wire :
        wire[i].via \in {"answer", "catch", "sendError", "timeout"}
            => Len(wire[i].data) <= 512

----------------------------------------------------------------------------
(* Startup *)

\* C12: when binding the listening socket fails at startup, start() fails and
\* the process aborts startup; the server is never left alive with the bind
\* failed, neither listening nor terminated.
C12_BindFailureAborts == proc # "unbound"

----------------------------------------------------------------------------
(* Record store *)

\* two names that differ at most in the case of their ASCII letters
SameFolded(a, b) ==
    /\ Len(a) = Len(b)
    /\ \A i \in 1..Len(a) :
           (IF a[i] \in 65..90 THEN a[i] + 32 ELSE a[i])
               = (IF b[i] \in 65..90 THEN b[i] + 32 ELSE b[i])

Hits(map, domain) == lookup(map, domain) # NoRecord

\* C13: lookup is a case-insensitive exact match.  On every store the server
\* reaches, after an add of x a query for d hits exactly when d is x up to case
\* or d hit before, and after a remove of x exactly when d is not x up to case
\* and d hit before: a hit means the latest add or remove of the name, in any
\* spelling, was an add; a sub-domain, parent or wildcard never matches.
C13_LookupFollowsLastAddOrRemove ==
    \A x \in StoreDomains, d \in StoreDomains :
        /\ Hits(addRecordTo(dnsRecords, x, "A", IP_new, 60), d)
               <=> (SameFolded(x, d) \/ Hits(dnsRecords, d))
        /\ Hits(removeRecordFrom(dnsRecords, x).map, d)
               <=> (~SameFolded(x, d) /\ Hits(dnsRecords, d))

\* a query for NEW.LOCAL answered from the record stored under new.local, with
\* the wildcard *.local in the store
C13_UpperCaseQueryHits ==
    /\ D_wild \in DOMAIN dnsRecords
    /\ \E q \in DOMAIN queries :
           /\ queries[q].path = "hit"
           /\ parseDNSQuery(queries[q].msg).domain = D_NEWUP

\* C14: add always succeeds and overwrites, and the lookup that follows it
\* returns exactly the record supplied, for every TTL >= 0, 0 included, whether
\* the add is a call of addRecord or the console command.
C14_AddThenLookupReturnsSupplied ==
    /\ [](\A x \in StoreDomains, ttl \in SuppliedTTLs :
              lookup(addRecordTo(dnsRecords, x, "A", IP_new, ttl), x)
                  = Rec("A", IP_new, ttl))
    /\ [][\A x \in StoreDomains, ttl \in SuppliedTTLs :
              Console("add", <<x, "A", IP_new, Decimal(ttl)>>)
                  => lookup(dnsRecords', x) = Rec("A", IP_new, ttl)]_vars

\* C15: remove returns true exactly when a record existed under the
\* case-folded domain, and then deletes that record and nothing else; when
\* none existed it returns false and leaves the store as it was.
C15_RemoveReportsAndDeletesOnly ==
    \A x \in StoreDomains :
        LET result == removeRecordFrom(dnsRecords, x)
            held   == {k \in DOMAIN dnsRecords : SameFolded(k, x)}
        IN  IF held # {}
            THEN /\ result.removed = TRUE
                 /\ DOMAIN result.map = (DOMAIN dnsRecords) \ held
                 /\ \A k \in DOMAIN result.map : result.map[k] = dnsRecords[k]
            ELSE /\ result.removed = FALSE
                 /\ result.map = dnsRecords

\* the record loaded as New.local has been removed (as NEW.LOCAL) and the
\* records added since are still there
C15_LoadedRecordRemoved ==
    /\ configFile = JsonFile(mixedConfig)
    /\ D_new \notin DOMAIN dnsRecords
    /\ {D_wild, D_parent} \subseteq DOMAIN dnsRecords

\* C16: add is idempotent: on every store the server reaches, adding the same
\* (domain, type, value, ttl) a second time leaves the store as the first add
\* left it.
C16_AddIsIdempotent ==
    \A x \in StoreDomains, ttl \in SuppliedTTLs \cup {DefaultTTL} :
        LET once == addRecordTo(dnsRecords, x, "A", IP_new, ttl)
        IN  addRecordTo(once, x, "A", IP_new, ttl) = once

\* new.local holds the record the console added with TTL 60, where the same
\* line can be entered again
C16_RecordAddedOnce ==
    /\ proc = "running"
    /\ D_new \in DOMAIN dnsRecords
    /\ dnsRecords[D_new] = Rec("A", IP_new, 60)

----------------------------------------------------------------------------
(* Codec round trip *)

----------------------------------------------------------------------------
(* Configuration *)

\* the store holds exactly the names of entries, each with its type and value
HoldsExactly(entries) ==
    /\ DOMAIN dnsRecords = {toLowerCase(entries[i].domain) : i \in DOMAIN entries}
    /\ \A i \in DOMAIN entries :
           LET record == dnsRecords[toLowerCase(entries[i].domain)]
           IN  record.type = entries[i].record.type /\ record.value = entries[i].record.value

\* C18: startup always ends with a populated store: the defaults when the
\* configuration source is absent or cannot be loaded, exactly the domains of
\* the source when it can; no state of the source makes construction fail.
C18_StartupAlwaysLoads ==
    /\ proc # "failed"
    /\ proc = "starting" =>
           /\ dnsRecords # EmptyMap
           /\ IF configFile.kind = "json" /\ "domains" \in DOMAIN configFile.value
              THEN HoldsExactly(configFile.value.domains)
              ELSE HoldsExactly(defaultConfig.domains)

\* C19: after any sequence of load, add and remove every stored record has a
\* TTL that is an integer >= 0, so no hit fails for its TTL when the answer is
\* serialized.
C19_StoredTTLsNonNegative ==
    /\ \A k \in DOMAIN dnsRecords : dnsRecords[k].ttl \in Nat
    /\ \A q \in Qs : queries[q].path = "hitFailed" => queries[q].record.ttl \in Nat

----------------------------------------------------------------------------
(* Several questions *)

RECURSIVE SkipQuestions(_, _, _)
\* a resolver's walk over n questions from offset: the offset after the last
\* one, -1 when a question leaves the datagram
SkipQuestions(data, offset, n) ==
    IF n = 0 THEN offset
    ELSE LET o == SkipName(data, offset)
         IN  IF o < 0 \/ o + 4 > Len(data) THEN 0 - 1
             ELSE SkipQuestions(data, o + 4, n - 1)

\* C20: when a query announces more than one question, the lookup uses the
\* first question only and the answer echoes the whole question section of the
\* query, so that the answer carries as many questions as its header counts.
C20_QuestionSectionEchoed ==
    \A q \in Qs :
        LET msg   == queries[q].msg
            query == parseDNSQuery(msg)
        IN  (queries[q].path = "hit" /\ query.header.qdcount > 1) =>
                /\ SameFolded(query.domain, D_hit)
                /\ \A i \in Via(q, "answer") :
                       LET data   == wire[i].data
                           counts == RdU16(data, 4)
                           end    == SkipQuestions(msg, HeaderLen, query.header.qdcount)
                       IN  /\ counts = query.header.qdcount
                           /\ SkipQuestions(data, HeaderLen, counts) = end
                           /\ SubSeq(data, HeaderLen + 1, end) = SubSeq(msg, HeaderLen + 1, end)

----------------------------------------------------------------------------
(* The answer record *)

\* the type codes of getTypeString, by type name
TypeCode(type) ==
    CASE type = "A" -> 1 [] type = "AAAA" -> 28 [] type = "CNAME" -> 5 [] type = "MX" -> 15
      [] type = "NS" -> 2 [] type = "PTR" -> 12 [] type = "TXT" -> 16 [] OTHER -> 0

\* where the answer record of a response starts: after the first question
AnswerAt(data) == SkipName(data, HeaderLen) + 4

\* C21: in an answer the type field of the answer record is the type code of
\* the stored record's type: a stored non-A record is tagged with its own type
\* code, not with that of A.
C21_AnswerTypeIsRecordType ==
    \A q \in Qs : queries[q].path = "hit" =>
        \A i \in Via(q, "answer") :
            RdU16(wire[i].data, AnswerAt(wire[i].data) + 2) = TypeCode(queries[q].record.type)

----------------------------------------------------------------------------
(* Queries side by side *)

\* a forward that has had neither its reply nor its timeout nor a send failure
Pending(q) ==
    /\ Forwarded(q)
    /\ queries[q].sock = "open" /\ queries[q].timer = "armed"
    /\ Sent(q) = {}

\* C23: a query that hits the store is answered in the step that takes it,
\* whatever forwards are pending: in every state, the first included in which
\* it has been received, it has been sent exactly one datagram, its answer,
\* ahead of every datagram sent for a later query.
C23_HitsAnsweredWhileForwardsPending ==
    \A q \in Qs : queries[q].path = "hit" =>
        /\ Cardinality(Sent(q)) = 1
        /\ \A i \in Sent(q) :
               /\ wire[i].via = "answer"
               /\ \A j \in DOMAIN wire : wire[j].q > q => i < j

\* the second query hit the store and was answered while the first, forwarded,
\* still waits for its reply
C23_HitDuringPendingForward ==
    /\ Len(queries) = 2
    /\ Pending(1)
    /\ queries[2].path = "hit" /\ Via(2, "answer") # {}

\* C24: forwarded queries are isolated from each other: every datagram sent for
\* a query goes to the address and port that query came from, and the upstream
\* exchange of one query, slow, failed or timed out, never takes away the
\* answer of another: while every datagram received was a hit or a miss, a
\* forward that still waits is served by a live process.
C24_ForwardsIsolated ==
    /\ \A i \in DOMAIN wire : wire[i].to = queries[wire[i].q].rinfo
    /\ (\A q \in Qs : queries[q].path \in {"hit", "forwarded"}) =>
           \A q \in Qs : Pending(q) => proc # "crashed"

\* C25: the pending state of a forward lasts only until the first of reply and
\* timeout: once the client of a forwarded query has been sent its datagram,
\* the query's ephemeral socket is closed and no deadline is armed for it.
C25_PendingStateEndsAtTerminal ==
    \A q \in Qs : (Forwarded(q) /\ Sent(q) # {}) =>
        /\ queries[q].sock = "closed"
        /\ queries[q].timer # "armed"

----------------------------------------------------------------------------
(* Store under the console *)

\* the records handed to the store whole: those of the configuration in use,
\* with the loader's default TTL, and those of the console's add lines
Supplied ==
    LET config == IF configFile.kind = "json" THEN configFile.value ELSE defaultConfig
    IN  {Rec(config.domains[i].record.type, config.domains[i].record.value,
             IF config.domains[i].record.ttl = 0 THEN DefaultTTL
             ELSE config.domains[i].record.ttl) : i \in DOMAIN config.domains}
        \cup {Rec(line[2][2], line[2][3],
                  ConsoleTTL(IF Len(line[2]) >= 4 THEN line[2][4] ELSE <<>>)) :
                 line \in {l \in StoreLines : l[1] = "add" /\ Len(l[2]) >= 3}}

\* C26: add and remove interleaved with queries never expose a partly written
\* record: every record in the store, and every record a lookup returned, is
\* one of the records handed to the store, whole.
C26_LookupSeesWholeRecords ==
    proc # "failed" =>
        /\ \A k \in DOMAIN dnsRecords : dnsRecords[k] \in Supplied
        /\ \A q \in Qs : queries[q].path \in {"hit", "hitFailed"} => queries[q].record \in Supplied

\* a lookup returned the TXT record that replaced the loaded A record of new.local
C26_OverwrittenRecordLookedUp ==
    /\ configFile = JsonFile(mixedConfig)
    /\ \E q \in Qs : queries[q].path = "hit" /\ queries[q].record = Rec("TXT", V_hello, DefaultTTL)

----------------------------------------------------------------------------
(* Upstream target *)

\* C27: for every forwarded query the upstream target is an element of the
\* configured resolver list, under every configuration the loader accepts, a
\* missing or empty list included, and what is sent to it, on port 53, is the
\* inbound datagram byte for byte.
C27_UpstreamFromConfiguredList ==
    \A q \in Qs : Forwarded(q) =>
        /\ \E i \in DOMAIN upstreamDNS : queries[q].upstream = upstreamDNS[i]
        /\ queries[q].upSent =
               <<[data |-> queries[q].msg, port |-> 53, address |-> queries[q].upstream]>>

----------------------------------------------------------------------------
(* Store keys *)

\* C28: after any sequence of startup load, add and remove every key of the
\* store is its own lower-cased form and maps to one record; two names that
\* differ only in letter case never occupy two entries.
C28_KeysLowerCasedAndUnique ==
    /\ \A k \in DOMAIN dnsRecords : \A i \in 1..Len(k) : k[i] \notin 65..90
    /\ \A k1 \in DOMAIN dnsRecords, k2 \in DOMAIN dnsRecords : SameFolded(k1, k2) => k1 = k2

\* the record the console added as New.local is held under new.local
C28_MixedCaseAddFolded ==
    /\ configFile = Absent
    /\ D_new \in DOMAIN dnsRecords /\ dnsRecords[D_new].ttl = 60
    /\ D_New \notin DOMAIN dnsRecords

----------------------------------------------------------------------------
(* Shutdown *)

\* C29: when the operator quits while forwards are in flight, each of them
\* still relays its reply or reaches its timeout and sends its error response
\* before the process ends: no forward is cut off by the shutdown.
C29_QuitLetsForwardsFinish ==
    proc = "exited" =>
        \A q \in Qs : (Forwarded(q) /\ Via(q, "sendError") = {}) =>
            Via(q, "relay") \cup Via(q, "timeout") # {}

----------------------------------------------------------------------------
(* Resource data *)

\* C30: for every hit on an A record, whatever string is stored as its value,
\* the resource-data length field of the answer is 4, four bytes of resource
\* data follow it and the datagram ends after them: its length is 12 + the
\* length of the echoed first question + 16.
C30_RdataMatchesLength ==
    \A q \in Qs : (queries[q].path = "hit" /\ queries[q].record.type = "A") =>
        \A i \in Via(q, "answer") :
            LET data == wire[i].data
                a    == AnswerAt(data)
            IN  /\ RdU16(data, a + 10) = 4
                /\ Len(data) = a + 16

----------------------------------------------------------------------------
(* Section counts *)

\* C31: in an answer the header's section counts describe the datagram sent:
\* as many questions as the question count precede the answer record, the
\* answer count is 1, and the authority and additional counts are 0, also when
\* the query carried non-zero authority or additional counts.
C31_CountsDescribeAnswer ==
    \A q \in Qs : queries[q].path = "hit" =>
        \A i \in Via(q, "answer") :
            LET data == wire[i].data
                end  == SkipQuestions(data, HeaderLen, RdU16(data, 4))
            IN  /\ end >= 0 /\ end + 2 <= Len(data)
                /\ RdU16(data, end) = 49164
                /\ RdU16(data, 6) = 1
                /\ RdU16(data, 8) = 0
                /\ RdU16(data, 10) = 0

----------------------------------------------------------------------------
(* Classification *)

\* the store holds a record under the name, up to letter case
Stored(domain) == \E k \in DOMAIN dnsRecords : SameFolded(k, domain)

\* C32: a parsed query is classified as local hit exactly when the store, as
\* it is when the datagram is handled, holds its question name up to letter
\* case, and as forward otherwise, whatever its type and class; no later step,
\* a store change included, alters the classification of a query or the record
\* found for it, and a forwarded query is never answered from the store.
C32_ClassifiedByNameAndStore ==
    /\ [](\A q \in Qs : Forwarded(q) => Via(q, "answer") \cup Via(q, "catch") = {})
    /\ [][/\ \A q \in Qs : /\ queries'[q].path = queries[q].path
                           /\ queries'[q].record = queries[q].record
          /\ Len(queries') > Len(queries) =>
                 LET new   == queries'[Len(queries')]
                     query == parseDNSQuery(new.msg)
                 IN  query.ok =>
                         /\ new.path \in {"hit", "hitFailed"} <=> Stored(query.domain)
                         /\ new.path = "forwarded" <=> ~Stored(query.domain)]_vars

\* a query forwarded for a name that was added afterwards got the upstream's
\* reply, and none from the store
C32_ForwardedThenAdded ==
    \E q \in Qs :
        /\ Forwarded(q)
        /\ Stored(parseDNSQuery(queries[q].msg).domain)
        /\ Via(q, "relay") # {}

----------------------------------------------------------------------------
(* Console frame *)

\* the line is an add or a remove that names a domain
Writes(line) ==
    \/ line[1] = "add" /\ Len(line[2]) >= 3
    \/ line[1] = "remove" /\ Len(line[2]) >= 1 /\ Len(line[2][1]) > 0

\* C33: list, help, an unknown command, add with fewer than three arguments
\* and remove without an argument leave the store unchanged; add and remove
\* change at most the entry whose key is their domain argument, case-folded.
C33_ConsoleFrame ==
    [][\A line \in StoreLines : Console(line[1], line[2]) =>
           IF Writes(line)
           THEN \A k \in (DOMAIN dnsRecords) \cup (DOMAIN dnsRecords') :
                    ~SameFolded(k, line[2][1]) =>
                        /\ k \in DOMAIN dnsRecords /\ k \in DOMAIN dnsRecords'
                        /\ dnsRecords'[k] = dnsRecords[k]
           ELSE dnsRecords' = dnsRecords]_vars

\* new.local was replaced by the TXT record next to the wildcard and the
\* parent name, and the eight default records are all still there
C33_OtherEntriesKept ==
    /\ configFile = Absent
    /\ {D_wild, D_parent} \subseteq DOMAIN dnsRecords
    /\ D_new \in DOMAIN dnsRecords /\ dnsRecords[D_new].type = "TXT"
    /\ Cardinality(DOMAIN dnsRecords) = 11

====
